---- MODULE Spec2Model ----
(***************************************************************************)
(* A model of egg's Application (lib/application.js): per-request context  *)
(* construction by prototype delegation, the anonymous-context builder,    *)
(* the secret-key accessor, config diagnostics and lifecycle event binding,*)
(* the 'request' and 'response' events of handleRequest, background tasks  *)
(* and the locals bag.                                                     *)
(*                                                                         *)
(* JavaScript objects live in a heap: an object is a prototype pointer     *)
(* plus its own properties, a property read walks the prototype chain and  *)
(* an assignment always creates or updates an own property.                *)
(***************************************************************************)
EXTENDS Integers, Sequences, FiniteSets, TLC

VARIABLES
  heap,      \* the object heap: heap[i] = [proto |-> id or 0, own |-> field -> value]
  contexts,  \* ids of the contexts returned by createContext so far, in order
  snap,      \* history: snap[i][X][f] = what contexts[i]'s facet X read for f when it was returned
  written,   \* history: <<i, X, f>> -> the value last assigned by a caller to field f of facet X of contexts[i]
  op,        \* the operation performed by the last step, with its result
  anons,     \* history: the createAnonymousContext calls so far: argument, its description, result
  config,    \* this.config: keys, env, ...
  keysCache, \* this[KEYS]: undefined, or the cached array
  keysOut,   \* the outcome of the last access to app.keys: a value or a thrown error
  stderr,    \* the lines console.error has printed
  keysHist,  \* history: accesses made, arrays computed, config.keys at the first computation
  pc,        \* where the constructor is: "new", "loaded", "dumped", "warned", "constructed", "threw"
  ctorLog,   \* history: the calls the constructor has made, in order
  thrown,    \* the exception the constructor threw to its caller, if any
  logs,      \* what logger.warn, logger.error and coreLogger have been given
  files,     \* the files written under config.rundir
  listeners, \* the application's event listeners: event -> sequence of [once, handler]
  servers,   \* per server: the clientError listeners and crash supervisors attached to it
  sockets,   \* the raw sockets that raised a client error: bytes written, ended
  lifeHist,  \* history: what load and dumpConfig ran into, 'server' events emitted, runs of onServer
  router,    \* this.router.stack: the layers of the router, in order
  requests,  \* per context: how far handleRequest and the handling it starts have got
  emitted,   \* history: the 'request' and 'response' events emitted, with what their observers saw
  ctxLogs,   \* what the coreLogger of each context has been given
  bg,        \* history: the runInBackground calls so far, with what their caller saw
  locals,    \* this[LOCALS]: undefined, or the locals bag
  localsHist \* history: the bags the locals getter returned, the values assigned per key

ctxVars == <<heap, contexts, snap, written>>
anonVars == <<anons>>
keysVars == <<config, keysCache, keysOut, stderr, keysHist>>
lifeVars == <<pc, ctorLog, thrown, logs, files, listeners, servers, sockets, lifeHist>>
reqVars == <<requests, emitted, ctxLogs>>
bgVars == <<bg>>
localsVars == <<locals, localsHist>>
vars == <<heap, contexts, snap, written, op, anons, config, keysCache, keysOut, stderr, keysHist,
          pc, ctorLog, thrown, logs, files, listeners, servers, sockets, lifeHist,
          router, requests, emitted, ctxLogs, bg, locals, localsHist>>

----------------------------------------------------------------------------
(* Bounds *)

MaxContexts == 2
MaxWrites == 2
MaxAnon == 2
MaxKeysLen == 4
MaxAccesses == 3
MaxConfigChanges == 1
MaxServerEvents == 2
MaxSockets == 2
MaxCookieEvents == 2
MaxBackground == 2
MaxLocalsOps == 4

----------------------------------------------------------------------------
(* JavaScript values *)

Undefined == [t |-> "undefined", v |-> 0]
Str(s) == [t |-> "str", v |-> s]
Num(n) == [t |-> "num", v |-> n]
Ref(i) == [t |-> "obj", v |-> i]
Fn(name) == [t |-> "fn", v |-> name]
\* fn.bind(thisArg): a new function value that remembers its receiver
Bind(fn, thisArg) == [t |-> "bound", v |-> <<fn.v, thisArg.v>>]

IsRef(x) == x.t = "obj"

----------------------------------------------------------------------------
(* Strings, as sequences of characters *)

Chars(str) ==
  CASE str = "a, b ,c" -> <<"a", ",", " ", "b", " ", ",", "c">>
    [] str = "x,y" -> <<"x", ",", "y">>
    [] str = "" -> <<>>

\* String.prototype.split(','): the pieces between the commas
RECURSIVE SplitFrom(_, _, _)
SplitFrom(s, i, piece) ==
  IF i > Len(s) THEN <<piece>>
  ELSE IF s[i] = "," THEN <<piece>> \o SplitFrom(s, i + 1, <<>>)
  ELSE SplitFrom(s, i + 1, Append(piece, s[i]))

Split(s) == SplitFrom(s, 1, <<>>)

\* String.prototype.trim()
IsSpace(c) == c = " "

RECURSIVE TrimStart(_)
TrimStart(s) == IF s # <<>> /\ IsSpace(Head(s)) THEN TrimStart(Tail(s)) ELSE s

RECURSIVE TrimEnd(_)
TrimEnd(s) ==
  IF s # <<>> /\ IsSpace(s[Len(s)]) THEN TrimEnd(SubSeq(s, 1, Len(s) - 1)) ELSE s

Trim(s) == TrimEnd(TrimStart(s))

----------------------------------------------------------------------------
(* The heap *)

NoProps == [k \in {} |-> Undefined]
Put(m, f, v) == [k \in (DOMAIN m) \cup {f} |-> IF k = f THEN v ELSE m[k]]

\* {} and Object.create(proto): a fresh object, last in the heap
Alloc(h, proto, props) == Append(h, [proto |-> proto, own |-> props])
New(h) == Len(h) + 1

\* obj[f]: the own property, else the prototype chain's
RECURSIVE Get(_, _, _)
Get(h, o, f) ==
  IF o = 0 THEN Undefined
  ELSE IF f \in DOMAIN h[o].own THEN h[o].own[f]
  ELSE Get(h, h[o].proto, f)

\* obj[f] = v on a data property: always an own property of obj
RECURSIVE SetOnOwner(_, _, _, _)
SetOnOwner(h, o, f, v) ==
  IF f \in DOMAIN h[o].own \/ h[o].proto = 0 THEN [h EXCEPT ![o].own = Put(@, f, v)]
  ELSE SetOnOwner(h, h[o].proto, f, v)
Set(h, o, f, v) == [h EXCEPT ![o].own = Put(@, f, v)]

----------------------------------------------------------------------------
(* The application object and its three shared prototypes *)

AppId == 1
ContextProto == 2
RequestProto == 3
ResponseProto == 4

Facets == {"context", "request", "response"}

\* Fields callers read and assign on a facet: "tag" has a default on every
\* shared prototype, "user" has none, "originalUrl" is set at creation.
Fields == {"tag", "user", "originalUrl"}
WriteVals == {Str("x"), Str("y")}

InitHeap ==
  << [proto |-> 0, own |-> [k \in {"context", "request", "response"} |->
                              CASE k = "context" -> Ref(ContextProto)
                                [] k = "request" -> Ref(RequestProto)
                                [] k = "response" -> Ref(ResponseProto)]],
     [proto |-> 0, own |-> [k \in {"onerror", "tag"} |->
                              IF k = "onerror" THEN Fn("onerror") ELSE Str("ctxDefault")]],
     [proto |-> 0, own |-> [k \in {"tag"} |-> Str("reqDefault")]],
     [proto |-> 0, own |-> [k \in {"tag"} |-> Str("resDefault")]] >>

----------------------------------------------------------------------------
(* createContext(req, res) *)

\* Object.create(proto): a fresh, empty object that delegates to proto
ObjectCreateAliased(h, protoRef) == [heap |-> h, id |-> protoRef.v]
ObjectCreate(h, protoRef) == [heap |-> Alloc(h, protoRef.v, NoProps), id |-> New(h)]

\* request.ctx = response.ctx = context; request.response = response;
\* response.request = request
LinkFacetsHalf(h, context, request, response) ==
  Set(Set(h, request, "ctx", Ref(context)), request, "response", Ref(response))
LinkFacets(h, context, request, response) ==
  LET h1 == Set(Set(h, response, "ctx", Ref(context)), request, "ctx", Ref(context))
      h2 == Set(h1, request, "response", Ref(response))
  IN  Set(h2, response, "request", Ref(request))

\* The body of createContext: the heap it leaves and the context it returns.
createContext(h, app, req, res, now) ==
  LET d1 == ObjectCreate(h, Get(h, app, "context"))
      context == d1.id
      d2 == ObjectCreate(d1.heap, Get(d1.heap, app, "request"))
      request == d2.id
      h2 == Set(d2.heap, context, "request", Ref(request))
      d3 == ObjectCreate(h2, Get(h2, app, "response"))
      response == d3.id
      h3 == Set(d3.heap, context, "response", Ref(response))
      h4 == Set(Set(Set(h3, response, "app", Ref(app)), request, "app", Ref(app)),
                context, "app", Ref(app))
      h5 == Set(Set(Set(h4, response, "req", req), request, "req", req), context, "req", req)
      h6 == Set(Set(Set(h5, response, "res", res), request, "res", res), context, "res", res)
      h9 == LinkFacets(h6, context, request, response)
      h10 == Set(h9, context, "onerror", Bind(Get(h9, context, "onerror"), Ref(context)))
      url == Get(h10, req.v, "url")
      h11 == Set(Set(h10, request, "originalUrl", url), context, "originalUrl", url)
  IN  [heap |-> Set(h11, context, "starttime", Num(now)), ctx |-> context]

\* The object behind facet X of context c
FacetOf(h, c, X) == IF X = "context" THEN c ELSE Get(h, c, X).v

View(h, c) == [X \in Facets |-> [f \in Fields |-> Get(h, FacetOf(h, c, X), f)]]

Urls == {"/", "/a"}
Times == {1000}

\* An inbound request: the server hands createContext a fresh req / res pair.
CreateContext ==
  \E url \in Urls, now \in Times :
    /\ pc = "constructed"
    /\ Len(contexts) < MaxContexts
    /\ LET h1 == Alloc(heap, 0, [k \in {"url"} |-> Str(url)])
           req == Ref(New(heap))
           h2 == Alloc(h1, 0, NoProps)
           res == Ref(New(h1))
           r == createContext(h2, AppId, req, res, now)
       IN  /\ heap' = r.heap
           /\ contexts' = Append(contexts, r.ctx)
           /\ snap' = Append(snap, View(r.heap, r.ctx))
           /\ op' = [name |-> "createContext", ret |-> r.ctx]
    /\ UNCHANGED <<written, anonVars, keysVars, lifeVars>>
    /\ UNCHANGED <<router, reqVars, bgVars, localsVars>>

\* ctx.X.f = v by whoever holds context i
WriteField ==
  \E i \in 1..Len(contexts), X \in Facets, f \in Fields, v \in WriteVals :
    /\ Cardinality(DOMAIN written) < MaxWrites \/ <<i, X, f>> \in DOMAIN written
    /\ heap' = Set(heap, FacetOf(heap, contexts[i], X), f, v)
    /\ written' = Put(written, <<i, X, f>>, v)
    /\ op' = [name |-> "write", ret |-> 0]
    /\ UNCHANGED <<contexts, snap, anonVars, keysVars, lifeVars>>
    /\ UNCHANGED <<router, reqVars, bgVars, localsVars>>

----------------------------------------------------------------------------
(* get keys() *)

\* this.config.keys.split(',').map(s => s.trim()), on the characters of the string
ParseKeysNoTrim(s) == Split(s)
ParseKeys(s) == LET parts == Split(s) IN [i \in 1..Len(parts) |-> Trim(parts[i])]

\* this.config.env === 'local' || this.config.env === 'unittest'
IsLocalEnvOnlyLocal(env) == env = "local"
IsLocalEnv(env) == env = "local" \/ env = "unittest"

\* !x for undefined, a string (falsy when empty) or an array (never falsy)
Falsy(x) == x = Undefined \/ x = Str(<<>>)

\* An array value; id tells two arrays with equal elements apart
Arr(id, list) == [t |-> "array", v |-> [id |-> id, list |-> list]]

BaseDir == "/app"
\* console.error's arguments, one tuple a call; the path is path.join(baseDir, ...)
Guidance(baseDir) ==
  << <<"Cookie need secret key to sign and encrypt.">>,
     <<"Please add config.keys in %s", baseDir, "config/config.default.js">> >>
KeysError == [threw |-> TRUE, value |-> Str("Please set config.keys first")]

\* The getter: the cache, outcome and output it leaves. computed counts the
\* arrays built so far.
GetKeysNoCache(cache, cfg, computed) ==
  IF Falsy(cfg.keys)
  THEN [cache |-> cache, out |-> KeysError,
        printed |-> IF IsLocalEnv(cfg.env) THEN Guidance(cfg.baseDir) ELSE <<>>,
        computed |-> computed]
  ELSE LET arr == Arr(computed + 1, ParseKeys(cfg.keys.v))
       IN  [cache |-> arr, out |-> [threw |-> FALSE, value |-> arr],
            printed |-> <<>>, computed |-> computed + 1]
GetKeysCachesFailure(cache, cfg, computed) ==
  IF Falsy(cache)
  THEN IF Falsy(cfg.keys)
       THEN [cache |-> Arr(computed + 1, <<>>), out |-> KeysError,
             printed |-> IF IsLocalEnv(cfg.env) THEN Guidance(cfg.baseDir) ELSE <<>>,
             computed |-> computed + 1]
       ELSE LET arr == Arr(computed + 1, ParseKeys(cfg.keys.v))
            IN  [cache |-> arr, out |-> [threw |-> FALSE, value |-> arr],
                 printed |-> <<>>, computed |-> computed + 1]
  ELSE [cache |-> cache, out |-> [threw |-> FALSE, value |-> cache],
        printed |-> <<>>, computed |-> computed]
GetKeys(cache, cfg, computed) ==
  IF Falsy(cache)
  THEN IF Falsy(cfg.keys)
       THEN [cache |-> cache, out |-> KeysError,
             printed |-> IF IsLocalEnv(cfg.env) THEN Guidance(cfg.baseDir) ELSE <<>>,
             computed |-> computed]
       ELSE LET arr == Arr(computed + 1, ParseKeys(cfg.keys.v))
            IN  [cache |-> arr, out |-> [threw |-> FALSE, value |-> arr],
                 printed |-> <<>>, computed |-> computed + 1]
  ELSE [cache |-> cache, out |-> [threw |-> FALSE, value |-> cache],
        printed |-> <<>>, computed |-> computed]

\* One access to app.keys; keysOut also records what the access found:
\* the cache and config.keys before it, and what it printed.
AccessKeys ==
  /\ keysHist.accesses < MaxAccesses
  /\ LET r == GetKeys(keysCache, config, keysHist.computed)
     IN  /\ keysCache' = r.cache
         /\ keysOut' = [threw |-> r.out.threw, value |-> r.out.value, printed |-> r.printed,
                        cacheBefore |-> keysCache, keys |-> config.keys]
         /\ stderr' = stderr \o r.printed
         /\ keysHist' = [keysHist EXCEPT !.accesses = @ + 1, !.computed = r.computed,
                                         !.source = IF r.computed > keysHist.computed
                                                    THEN config.keys ELSE @]
  /\ UNCHANGED <<config, ctxVars, op, anonVars, lifeVars>>
  /\ UNCHANGED <<router, reqVars, bgVars, localsVars>>

\* Code holding the application assigns or deletes config.keys
NewKeys == {Undefined, Str(Chars("x,y"))}

SetConfigKeys ==
  \E k \in NewKeys :
    /\ keysHist.changes < MaxConfigChanges
    /\ k # config.keys
    /\ config' = [config EXCEPT !.keys = k]
    /\ keysHist' = [keysHist EXCEPT !.changes = @ + 1]
    /\ UNCHANGED <<keysCache, keysOut, stderr, ctxVars, op, anonVars, lifeVars>>
    /\ UNCHANGED <<router, reqVars, bgVars, localsVars>>

Alphabet == {"a", "b", ",", " "}

RECURSIVE StringsOfLen(_)
StringsOfLen(n) ==
  IF n = 0 THEN {<<>>} ELSE { Append(s, c) : s \in StringsOfLen(n - 1), c \in Alphabet }

KeysInputs ==
  { Str(s) : s \in UNION { StringsOfLen(n) : n \in 0..MaxKeysLen } \cup {Chars("a, b ,c")} }
    \cup {Undefined}

Envs == {"local", "unittest", "prod"}

\* this.config: keys, env, baseDir, rundir, the deprecated -> replacement
\* names of confusedConfigurations in key order, and its other keys (props)
ConfigWith(k, env, confused, props) ==
  [keys |-> k, env |-> env, baseDir |-> BaseDir, rundir |-> "/app/run",
   confusedConfigurations |-> confused, props |-> props]

\* config[key] for a key that is none of the above
ConfigGet(cfg, key) == IF key \in DOMAIN cfg.props THEN cfg.props[key] ELSE Undefined

InitKeysWith(k, env) ==
  /\ config = ConfigWith(k, env, <<>>, NoProps)
  /\ keysCache = Undefined
  /\ keysOut = [threw |-> FALSE, value |-> Undefined, printed |-> <<>>,
                cacheBefore |-> Undefined, keys |-> Undefined]
  /\ stderr = <<>>
  /\ keysHist = [accesses |-> 0, computed |-> 0, changes |-> 0, source |-> Undefined]

----------------------------------------------------------------------------
(* createAnonymousContext(req) *)

SubKeys == {"headers", "query", "socket"}

\* The literal of lines 191-208: its three sub-objects and its other fields
DefaultSubs ==
  [headers |-> ("x-forwarded-for" :> Str("127.0.0.1")),
   query |-> NoProps,
   socket |-> [remoteAddress |-> Str("127.0.0.1"), remotePort |-> Num(7001)]]

DefaultTop ==
  [querystring |-> Str(""), host |-> Str("127.0.0.1"), hostname |-> Str("127.0.0.1"),
   protocol |-> Str("http"), secure |-> Str("false"), method |-> Str("GET"),
   url |-> Str("/"), path |-> Str("/")]

\* An object literal with sub-objects: each sub-object is allocated, then the
\* object holding references to them. subs: key -> (field -> value), top: key -> value.
RECURSIVE AllocSubs(_, _, _, _)
AllocSubs(h, subs, keys, refs) ==
  IF keys = {} THEN [heap |-> h, refs |-> refs]
  ELSE LET k == CHOOSE k \in keys : TRUE
       IN  AllocSubs(Alloc(h, 0, subs[k]), subs, keys \ {k}, Put(refs, k, Ref(New(h))))

AllocLiteral(h, subs, top) ==
  LET a == AllocSubs(h, subs, DOMAIN subs, NoProps)
  IN  [heap |-> Alloc(a.heap, 0, a.refs @@ top), id |-> New(a.heap)]

\* Object.assign(target, source): copies the source's own properties; a
\* source that is undefined is skipped.
RECURSIVE CopyProps(_, _, _, _)
CopyProps(h, target, source, keys) ==
  IF keys = {} THEN h
  ELSE LET k == CHOOSE k \in keys : TRUE
       IN  CopyProps(Set(h, target, k, h[source].own[k]), target, source, keys \ {k})

ObjectAssignReversed(h, target, source) ==
  IF IsRef(source) THEN CopyProps(h, source.v, target.v, DOMAIN h[target.v].own) ELSE h
ObjectAssign(h, target, source) ==
  IF IsRef(source) THEN CopyProps(h, target.v, source.v, DOMAIN h[source.v].own) ELSE h

\* One round of the for-in loop of lines 210-216
MergeKeyReplace(h, request, req, key) == Set(h, request, key, Get(h, req, key))
MergeKeySubsOnly(h, request, req, key) ==
  IF key \in SubKeys THEN ObjectAssign(h, Get(h, request, key), Get(h, req, key)) ELSE h
MergeKey(h, request, req, key) ==
  IF key = "headers" \/ key = "query" \/ key = "socket"
  THEN ObjectAssign(h, Get(h, request, key), Get(h, req, key))
  ELSE Set(h, request, key, Get(h, req, key))

RECURSIVE MergeKeys(_, _, _, _)
MergeKeys(h, request, req, keys) ==
  IF keys = {} THEN h
  ELSE LET k == CHOOSE k \in keys : TRUE
       IN  MergeKeys(MergeKey(h, request, req, k), request, req, keys \ {k})

\* The body of createAnonymousContext; req is a reference or undefined.
createAnonymousContext(h, app, req, now) ==
  LET lit == AllocLiteral(h, DefaultSubs, DefaultTop)
      request == lit.id
      h1 == IF IsRef(req) THEN MergeKeys(lit.heap, request, req.v, DOMAIN lit.heap[req.v].own)
            ELSE lit.heap
      \* new http.ServerResponse(request)
      h2 == Alloc(h1, 0, NoProps)
      response == New(h1)
  IN  createContext(h2, app, Ref(request), Ref(response), now)

\* What callers pass: nothing, or an object literal. <<>> stands for a key
\* the literal does not have, <<props>> for a key it has.
HeaderMocks == { <<>>, <<("x-forwarded-for" :> Str("10.0.0.1"))>>, <<("user-agent" :> Str("ua"))>> }
QueryMocks == { <<>>, <<[a |-> Str("1")]>> }
SocketMocks == { <<>>, <<[remotePort |-> Num(80)]>> }
TopMocks == { NoProps, [method |-> Str("POST")], [host |-> Str("example.com"), ip |-> Str("10.0.0.9")],
              [url |-> Undefined] }

MockDescs ==
  { [headers |-> hd, query |-> q, socket |-> sk, top |-> t] :
      hd \in HeaderMocks, q \in QueryMocks, sk \in SocketMocks, t \in TopMocks }

MockSubs(d) == [k \in {k \in SubKeys : d[k] # <<>>} |-> d[k][1]]

NoArg == [none |-> TRUE]

CreateAnonymousContext ==
  \E d \in MockDescs \cup {NoArg}, now \in Times :
    /\ pc = "constructed"
    /\ Len(anons) < MaxAnon
    /\ LET lit == IF d = NoArg THEN [heap |-> heap, id |-> 0]
                  ELSE AllocLiteral(heap, MockSubs(d), d.top)
           req == IF d = NoArg THEN Undefined ELSE Ref(lit.id)
           r == createAnonymousContext(lit.heap, AppId, req, now)
       IN  /\ heap' = r.heap
           /\ contexts' = Append(contexts, r.ctx)
           /\ snap' = Append(snap, View(r.heap, r.ctx))
           /\ anons' = Append(anons, [arg |-> req, desc |-> d, ctx |-> r.ctx])
           /\ op' = [name |-> "createAnonymousContext", ret |-> r.ctx]
    /\ UNCHANGED <<written, keysVars, lifeVars>>
    /\ UNCHANGED <<router, reqVars, bgVars, localsVars>>

----------------------------------------------------------------------------
(* The response to a client error *)

\* The characters of DEFAULT_BAD_REQUEST_HTML, as code points (8 spaces of
\* indentation in all, one heart U+2764)
DEFAULT_BAD_REQUEST_HTML ==
  << 60, 104, 116, 109, 108, 62, 10, 32, 32, 60, 104, 101, 97, 100, 62, 60,
     116, 105, 116, 108, 101, 62, 52, 48, 48, 32, 66, 97, 100, 32, 82, 101,
     113, 117, 101, 115, 116, 60, 47, 116, 105, 116, 108, 101, 62, 60, 47, 104,
     101, 97, 100, 62, 10, 32, 32, 60, 98, 111, 100, 121, 32, 98, 103, 99,
     111, 108, 111, 114, 61, 34, 119, 104, 105, 116, 101, 34, 62, 10, 32, 32,
     60, 99, 101, 110, 116, 101, 114, 62, 60, 104, 49, 62, 52, 48, 48, 32,
     66, 97, 100, 32, 82, 101, 113, 117, 101, 115, 116, 60, 47, 104, 49, 62,
     60, 47, 99, 101, 110, 116, 101, 114, 62, 10, 32, 32, 60, 104, 114, 62,
     60, 99, 101, 110, 116, 101, 114, 62, 10084, 60, 47, 99, 101, 110, 116, 101,
     114, 62, 10, 32, 32, 60, 47, 98, 111, 100, 121, 62, 10, 32, 32, 60,
     47, 104, 116, 109, 108, 62 >>

\* The UTF-8 bytes of a code point, and of a string
Utf8(c) ==
  IF c < 128 THEN <<c>>
  ELSE IF c < 2048 THEN <<192 + (c \div 64), 128 + (c % 64)>>
  ELSE IF c < 65536 THEN <<224 + (c \div 4096), 128 + ((c \div 64) % 64), 128 + (c % 64)>>
  ELSE <<240 + (c \div 262144), 128 + ((c \div 4096) % 64), 128 + ((c \div 64) % 64),
         128 + (c % 64)>>

RECURSIVE Utf8Encode(_)
Utf8Encode(str) ==
  IF str = <<>> THEN <<>>
  ELSE IF Len(str) = 1 THEN Utf8(str[1])
  ELSE LET half == Len(str) \div 2
       IN  Utf8Encode(SubSeq(str, 1, half)) \o Utf8Encode(SubSeq(str, half + 1, Len(str)))

\* Buffer.byteLength(str)
ByteLength(str) == Len(Utf8Encode(str))

\* `${n}`: the decimal digits of a number
RECURSIVE Decimal(_)
Decimal(n) == IF n < 10 THEN <<48 + n>> ELSE Decimal(n \div 10) \o <<48 + (n % 10)>>

HtmlStringLength == Len(DEFAULT_BAD_REQUEST_HTML)
DEFAULT_BAD_REQUEST_HTML_LENGTH == ByteLength(DEFAULT_BAD_REQUEST_HTML)

\* "HTTP/1.1 400 Bad Request\r\nContent-Length: "
StatusAndLengthHeader ==
  << 72, 84, 84, 80, 47, 49, 46, 49, 32, 52, 48, 48, 32, 66, 97, 100,
     32, 82, 101, 113, 117, 101, 115, 116, 13, 10, 67, 111, 110, 116, 101, 110,
     116, 45, 76, 101, 110, 103, 116, 104, 58, 32 >>
\* "\r\n\r\n"
EndOfHeaders == << 13, 10, 13, 10 >>

DEFAULT_BAD_REQUEST_RESPONSE ==
  StatusAndLengthHeader \o Decimal(DEFAULT_BAD_REQUEST_HTML_LENGTH)
    \o EndOfHeaders \o DEFAULT_BAD_REQUEST_HTML

\* socket.end(data): the data goes out as UTF-8, then the socket is closed;
\* on a socket already ended nothing is written
SocketEnd(sock, data) ==
  IF sock.ended THEN [sock EXCEPT !.endsAfterEnd = @ + 1]
  ELSE [sock EXCEPT !.written = @ \o Utf8Encode(data), !.ended = TRUE]

\* onClientError(err, socket): the log and the socket it leaves
onClientError(lg, err, sock) ==
  [logs |-> [lg EXCEPT !.error = Append(@, << "A client (%s:%d) error [%s] occurred: %s",
                                               sock.remoteAddress, sock.remotePort,
                                               err.code, err.message >>)],
   sock |-> SocketEnd(sock, DEFAULT_BAD_REQUEST_RESPONSE)]

----------------------------------------------------------------------------
(* Event listeners: on, once, emit *)

Events == {"server", "cookieLimitExceed"}
NoListeners == [e \in Events |-> <<>>]

On(ls, event, handler) == [ls EXCEPT ![event] = Append(@, [once |-> FALSE, handler |-> handler])]
Once(ls, event, handler) == [ls EXCEPT ![event] = Append(@, [once |-> TRUE, handler |-> handler])]

\* emit(event) calls every listener of the event; a once-listener is removed
IsPersistent(l) == ~l.once
AfterEmit(ls, event) == [ls EXCEPT ![event] = SelectSeq(@, IsPersistent)]

\* [BIND_EVENTS]()
BindEventsCookieOnce(ls) ==
  Once(Once(ls, "cookieLimitExceed", "logCookieLimitExceed"), "server", "onServer")
BindEventsWithOn(ls) == On(On(ls, "cookieLimitExceed", "logCookieLimitExceed"), "server", "onServer")
BindEvents(ls) == Once(On(ls, "cookieLimitExceed", "logCookieLimitExceed"), "server", "onServer")

----------------------------------------------------------------------------
(* dumpConfig: the router snapshot *)

\* stack[FULLPATH] || stack._name || stack.name || 'anonymous'; "" is a
\* missing or empty name
HandlerIdNameFirst(fn) ==
  IF fn.fullpath # "" THEN fn.fullpath
  ELSE IF fn.name # "" THEN fn.name
  ELSE IF fn.uname # "" THEN fn.uname
  ELSE "anonymous"
HandlerId(fn) ==
  IF fn.fullpath # "" THEN fn.fullpath
  ELSE IF fn.uname # "" THEN fn.uname
  ELSE IF fn.name # "" THEN fn.name
  ELSE "anonymous"

\* RegExp.prototype.toString()
RegexpToString(re) == <<"/", re.v[1], "/", re.v[2]>>

SnapshotOf(layer) ==
  [name |-> layer.name, methods |-> layer.methods, paramNames |-> layer.paramNames,
   path |-> layer.path, regexp |-> RegexpToString(layer.regexp),
   stack |-> [i \in 1..Len(layer.stack) |-> HandlerId(layer.stack[i])]]

RouterSnapshot(stack) == [i \in 1..Len(stack) |-> SnapshotOf(stack[i])]

\* A RegExp
Regexp(source, flags) == [t |-> "regexp", v |-> <<source, flags>>]

\* this.router.stack
RouterStack ==
  << [name |-> "home", methods |-> <<"HEAD", "GET">>, paramNames |-> <<>>, path |-> "/",
      regexp |-> Regexp("^(?:\\/(?=$))?$", "i"),
      stack |-> << [fullpath |-> "", uname |-> "", name |-> "index"] >>] >>

\* Layers a router may hold: the route 'home' for GET /, a route whose
\* handlers are identified in each of the four ways, and a layer without a
\* matcher
HomeLayer ==
  [name |-> "home", methods |-> <<"GET">>, paramNames |-> <<>>, path |-> "/",
   regexp |-> Regexp("^(?:\\/(?=$))?$", "i"),
   stack |-> << [fullpath |-> "/app/app/controller/home.js", uname |-> "", name |-> "index"] >>]
PostsLayer ==
  [name |-> "posts", methods |-> <<"POST">>, paramNames |-> <<"id">>, path |-> "/posts/:id",
   regexp |-> Regexp("^\\/posts\\/((?:[^\\/]+?))(?:\\/(?=$))?$", "i"),
   stack |-> << [fullpath |-> "/app/app/middleware/auth.js", uname |-> "auth", name |-> "mw"],
                [fullpath |-> "", uname |-> "jsonp", name |-> "wrapped"],
                [fullpath |-> "", uname |-> "", name |-> "update"],
                [fullpath |-> "", uname |-> "", name |-> ""] >>]
BrokenLayer ==
  [name |-> "broken", methods |-> <<"GET">>, paramNames |-> <<>>, path |-> "/broken",
   regexp |-> Undefined, stack |-> <<>>]
RouterStacks ==
  { <<>>, RouterStack, <<HomeLayer>>, <<HomeLayer, PostsLayer>>, <<PostsLayer, HomeLayer>>,
    <<HomeLayer, BrokenLayer>> }

\* What fs.writeFileSync may throw
WriteErrors == {Str("EACCES: permission denied")}

\* The try block of dumpConfig: the error it runs into, if any. layer.regexp
\* .toString() throws on a layer without a matcher
BuildError(stack) ==
  IF \E i \in 1..Len(stack) : stack[i].regexp = Undefined
  THEN Str("Cannot read property 'toString' of undefined")
  ELSE Undefined

\* dumpConfig(): router.json written, or the error caught and logged
dumpConfigUncaught(fs, lg, cfg, stack, writeError) ==
  LET error == IF BuildError(stack) # Undefined THEN BuildError(stack) ELSE writeError
  IN  IF error = Undefined
      THEN [files |-> Put(fs, <<cfg.rundir, "router.json">>, RouterSnapshot(stack)),
            logs |-> lg, thrown |-> Undefined, error |-> error]
      ELSE [files |-> fs, logs |-> lg, thrown |-> error, error |-> error]
dumpConfig(fs, lg, cfg, stack, writeError) ==
  LET error == IF BuildError(stack) # Undefined THEN BuildError(stack) ELSE writeError
  IN  IF error = Undefined
      THEN [files |-> Put(fs, <<cfg.rundir, "router.json">>, RouterSnapshot(stack)),
            logs |-> lg, thrown |-> Undefined, error |-> error]
      ELSE [files |-> fs,
            logs |-> [lg EXCEPT !.core = Append(@, <<"warn", "dumpConfig router.json error: ",
                                                     error.v>>)],
            thrown |-> Undefined, error |-> error]

----------------------------------------------------------------------------
(* warnConfusedConfig *)

\* this.config[key] !== undefined
IsDefinedTruthy(v) == v \notin {Undefined, Num(0)}
IsDefined(v) == v # Undefined

\* The warnings of one pass over Object.keys(confusedConfigurations); the
\* format strings are written without their backquotes
RECURSIVE WarnConfusedConfig(_, _)
WarnConfusedConfig(cfg, pairs) ==
  IF pairs = <<>> THEN <<>>
  ELSE LET key == Head(pairs)[1]
           warning == << "Unexpected config key %s exists, Please use %s instead.",
                         key, Head(pairs)[2] >>
       IN  (IF IsDefined(ConfigGet(cfg, key)) THEN <<warning>> ELSE <<>>)
             \o WarnConfusedConfig(cfg, Tail(pairs))

----------------------------------------------------------------------------
(* The constructor, step by step *)

ConstructorCalls == <<"load", "dumpConfig", "warnConfusedConfig", "bindEvents">>

LoadErrors == {Str("loader error 1"), Str("loader error 2")}

\* try { this.loader.load() } catch (e) { throw e }
AfterLoadSwallowed(error) == [pc |-> "loaded", thrown |-> Undefined]
AfterLoad(error) ==
  IF error = Undefined THEN [pc |-> "loaded", thrown |-> Undefined]
  ELSE [pc |-> "threw", thrown |-> error]

CtorLoad ==
  \E error \in LoadErrors \cup {Undefined} :
    /\ pc = "new"
    /\ pc' = AfterLoad(error).pc
    /\ thrown' = AfterLoad(error).thrown
    /\ ctorLog' = Append(ctorLog, "load")
    /\ lifeHist' = [lifeHist EXCEPT !.loadError = error]
    /\ UNCHANGED <<logs, files, listeners, servers, sockets, ctxVars, op, anonVars, keysVars>>
    /\ UNCHANGED <<router, reqVars, bgVars, localsVars>>

\* this.dumpConfig(): the config dump of the superclass, then router.json,
\* whose failure is caught and logged
CtorDumpConfig ==
  \E writeError \in WriteErrors \cup {Undefined} :
    /\ pc = "loaded"
    /\ LET r == dumpConfig(files, logs, config, router, writeError)
       IN  /\ pc' = IF r.thrown = Undefined THEN "dumped" ELSE "threw"
           /\ thrown' = r.thrown
           /\ files' = r.files
           /\ logs' = r.logs
           /\ lifeHist' = [lifeHist EXCEPT !.dumpError = r.error]
    /\ ctorLog' = Append(ctorLog, "dumpConfig")
    /\ UNCHANGED <<listeners, servers, sockets, ctxVars, op, anonVars, keysVars>>
    /\ UNCHANGED <<router, reqVars, bgVars, localsVars>>

\* this[WARN_CONFUSED_CONFIG]()
CtorWarnConfusedConfig ==
  /\ pc = "dumped"
  /\ pc' = "warned"
  /\ ctorLog' = Append(ctorLog, "warnConfusedConfig")
  /\ logs' = [logs EXCEPT !.warn = @ \o WarnConfusedConfig(config, config.confusedConfigurations)]
  /\ UNCHANGED <<thrown, files, listeners, servers, sockets, lifeHist, ctxVars, op, anonVars, keysVars>>
  /\ UNCHANGED <<router, reqVars, bgVars, localsVars>>

\* this[BIND_EVENTS]()
CtorBindEvents ==
  /\ pc = "warned"
  /\ pc' = "constructed"
  /\ ctorLog' = Append(ctorLog, "bindEvents")
  /\ listeners' = BindEvents(listeners)
  /\ UNCHANGED <<thrown, logs, files, servers, sockets, lifeHist, ctxVars, op, anonVars, keysVars>>
  /\ UNCHANGED <<router, reqVars, bgVars, localsVars>>

----------------------------------------------------------------------------
(* The 'server' event and client errors *)

Servers == {"s1", "s2"}

\* onServer(server): crash supervision for the server, and the clientError
\* handler installed on it
onServer(srv) ==
  [srv EXCEPT !.graceful = @ + 1, !.clientError = Append(@, "onClientError")]

\* The listeners of an event are called in the order they were added
RECURSIVE CallOnServer(_, _)
CallOnServer(ls, srv) ==
  IF ls = <<>> THEN srv
  ELSE CallOnServer(Tail(ls), IF Head(ls).handler = "onServer" THEN onServer(srv) ELSE srv)

\* app.emit('server', server)
EmitServer ==
  \E s \in Servers :
    /\ pc = "constructed"
    /\ lifeHist.serverEvents < MaxServerEvents
    /\ servers' = [servers EXCEPT ![s] = CallOnServer(listeners["server"], @)]
    /\ lifeHist' = [lifeHist EXCEPT !.serverEvents = @ + 1,
                                    !.onServerRuns = @ + Len(listeners["server"])]
    /\ listeners' = AfterEmit(listeners, "server")
    /\ UNCHANGED <<pc, ctorLog, thrown, logs, files, sockets, ctxVars, op, anonVars, keysVars>>
    /\ UNCHANGED <<router, reqVars, bgVars, localsVars>>

ClientErrors ==
  { [code |-> "HPE_INVALID_METHOD", message |-> "Parse Error"],
    [code |-> "ECONNRESET", message |-> "socket hang up"] }

RECURSIVE CallOnClientError(_, _, _, _)
CallOnClientError(ls, lg, err, sock) ==
  IF ls = <<>> THEN [logs |-> lg, sock |-> sock]
  ELSE LET r == onClientError(lg, err, sock)
       IN  CallOnClientError(Tail(ls), r.logs, err, r.sock)

\* A server with the handler installed reports malformed input on a socket:
\* each clientError listener of the server runs onClientError on it.
ClientError ==
  \E s \in Servers, err \in ClientErrors :
    /\ pc = "constructed"
    /\ Len(sockets) < MaxSockets
    /\ servers[s].clientError # <<>>
    /\ LET sock == [server |-> s, remoteAddress |-> "192.0.2.1", remotePort |-> 40000,
                    written |-> <<>>, ended |-> FALSE, endsAfterEnd |-> 0]
           r == CallOnClientError(servers[s].clientError, logs, err, sock)
       IN  /\ logs' = r.logs
           /\ sockets' = Append(sockets, r.sock)
    /\ UNCHANGED <<pc, ctorLog, thrown, files, listeners, servers, lifeHist, ctxVars, op,
                   anonVars, keysVars>>
    /\ UNCHANGED <<router, reqVars, bgVars, localsVars>>

----------------------------------------------------------------------------
(* handleRequest: the 'request' and 'response' events *)

\* What createContext has set on a context, as an observer of an event reads it
Populated(h, c) ==
  /\ \A f \in {"request", "response", "app", "req", "res"} : IsRef(Get(h, c, f))
  /\ Get(h, c, "originalUrl") # Undefined
  /\ Get(h, c, "starttime") # Undefined
  /\ Get(h, c, "onerror").t = "bound"

\* this.emit(event, ctx), as its observers see it: the context, how far its
\* handling has got and the state of its response
Emit(em, event, i, h, c, phase, res) ==
  Append(em, [event |-> event, ctx |-> i, phase |-> phase, res |-> res,
              populated |-> Populated(h, c), payload |-> Undefined])

\* handleRequest(ctx, fnMiddleware): 'request' is emitted, the handling is
\* started, and a listener for the end of ctx.res is registered
handleRequestEmitsBoth(em, i, h, c) ==
  [emitted |-> Emit(Emit(em, "request", i, h, c, "created", "open"),
                    "response", i, h, c, "handling", "open"),
   request |-> [phase |-> "handling", res |-> "open", resObj |-> Get(h, c, "res"),
                onFinished |-> FALSE]]
handleRequest(em, i, h, c) ==
  [emitted |-> Emit(em, "request", i, h, c, "created", "open"),
   request |-> [phase |-> "handling", res |-> "open", resObj |-> Get(h, c, "res"),
                onFinished |-> TRUE]]

\* The server passes a context it created to handleRequest
HandleRequest ==
  \E i \in 1..Len(contexts) :
    /\ i \notin DOMAIN requests
    /\ LET r == handleRequest(emitted, i, heap, contexts[i])
       IN  /\ emitted' = r.emitted
           /\ requests' = Put(requests, i, r.request)
    /\ UNCHANGED op
    /\ UNCHANGED <<ctxLogs, router, ctxVars, anonVars, keysVars, lifeVars, bgVars, localsVars>>

\* The middleware chain of a context settles
HandlingCompletes ==
  \E i \in DOMAIN requests :
    /\ requests[i].phase = "handling"
    /\ requests' = [requests EXCEPT ![i].phase = "handled"]
    /\ UNCHANGED op
    /\ UNCHANGED <<emitted, ctxLogs, router, ctxVars, anonVars, keysVars, lifeVars, bgVars,
                   localsVars>>

\* The handling, once complete, sends the response: ctx.res is ended
ResponseEnds ==
  \E i \in DOMAIN requests :
    /\ requests[i].phase = "handled"
    /\ requests[i].res = "open"
    /\ requests' = [requests EXCEPT ![i].res = "finished"]
    /\ UNCHANGED op
    /\ UNCHANGED <<emitted, ctxLogs, router, ctxVars, anonVars, keysVars, lifeVars, bgVars,
                   localsVars>>

\* The client goes away: the socket of ctx.res closes, whatever the handling
\* is doing
ConnectionCloses ==
  \E i \in DOMAIN requests :
    /\ requests[i].res = "open"
    /\ requests' = [requests EXCEPT ![i].res = "closed"]
    /\ UNCHANGED op
    /\ UNCHANGED <<emitted, ctxLogs, router, ctxVars, anonVars, keysVars, lifeVars, bgVars,
                   localsVars>>

\* onFinished(ctx.res, () => this.emit('response', ctx)): the listener runs
\* once, when the response has finished or its socket has closed
ResponseListenerRuns ==
  \E i \in DOMAIN requests :
    /\ requests[i].onFinished
    /\ requests[i].res \in {"finished", "closed"}
    /\ emitted' = Emit(emitted, "response", i, heap, contexts[i], requests[i].phase,
                       requests[i].res)
    /\ requests' = [requests EXCEPT ![i].onFinished = FALSE]
    /\ UNCHANGED op
    /\ UNCHANGED <<ctxLogs, router, ctxVars, anonVars, keysVars, lifeVars, bgVars, localsVars>>

----------------------------------------------------------------------------
(* The 'cookieLimitExceed' event *)

CookieNames == {"sid", "theme"}
\* Cookie values longer than the limit, by their text and its length
CookieValues == {[text |-> "v1", length |-> 4094], [text |-> "v2", length |-> 5000]}

\* The listener of 'cookieLimitExceed': the error it builds goes to
\* ctx.coreLogger.error
CookieLimitExceedError(name, value) ==
  [name |-> "CookieLimitExceedError",
   message |-> <<"cookie ", name, "'s length(", value.length, ") exceed the limit(4093)">>,
   key |-> name, cookie |-> value]
logCookieLimitExceed(lg, i, name, value) ==
  Append(lg, [ctx |-> i, level |-> "error", err |-> CookieLimitExceedError(name, value)])

RECURSIVE CallOnCookieLimitExceed(_, _, _, _, _)
CallOnCookieLimitExceed(ls, lg, i, name, value) ==
  IF ls = <<>> THEN lg
  ELSE CallOnCookieLimitExceed(Tail(ls),
         IF Head(ls).handler = "logCookieLimitExceed"
         THEN logCookieLimitExceed(lg, i, name, value) ELSE lg,
         i, name, value)

\* app.emit('cookieLimitExceed', { name, value, ctx }) while ctx is handled
CookieLimitExceed ==
  \E i \in DOMAIN requests, name \in CookieNames, value \in CookieValues :
    /\ requests[i].phase = "handling"
    /\ Cardinality({k \in 1..Len(emitted) : emitted[k].event = "cookieLimitExceed"})
         < MaxCookieEvents
    /\ emitted' = Append(emitted,
                    [event |-> "cookieLimitExceed", ctx |-> i, phase |-> requests[i].phase,
                     res |-> requests[i].res, populated |-> Populated(heap, contexts[i]),
                     payload |-> [t |-> "cookie", v |-> <<name, value>>]])
    /\ ctxLogs' = CallOnCookieLimitExceed(listeners["cookieLimitExceed"], ctxLogs, i, name, value)
    /\ listeners' = AfterEmit(listeners, "cookieLimitExceed")
    /\ UNCHANGED op
    /\ UNCHANGED <<requests, router, ctxVars, anonVars, keysVars, bgVars, localsVars>>
    /\ UNCHANGED <<pc, ctorLog, thrown, logs, files, servers, sockets, lifeHist>>

----------------------------------------------------------------------------
(* runInBackground(scope) *)

\* Tasks: a function with or without a name that returns, throws when it is
\* called, or fails later
TaskKinds == {"returns", "throws", "rejects"}
Tasks == { [name |-> n, uname |-> "", kind |-> k] : n \in {"", "sync"}, k \in TaskKinds }
TaskError(task) == Str("task failed")

\* eggUtils.getCalleeFromStack(true): the place runInBackground was called from
Callees == {"app/service/user.js:10:5"}

\* if (!scope.name) scope._name = eggUtils.getCalleeFromStack(true)
NameTask(task, callee) == IF task.name = "" THEN [task EXCEPT !.uname = callee] ELSE task

\* ctx.runInBackground(scope): the task is called with the context; what it
\* throws is caught and logged through the context, never thrown on
ContextRunInBackground(scope) ==
  [thrown |-> Undefined, guarded |-> TRUE,
   label |-> IF scope.uname # "" THEN scope.uname ELSE scope.name,
   state |-> IF scope.kind = "throws" THEN "failed" ELSE "running",
   error |-> IF scope.kind = "throws" THEN TaskError(scope) ELSE Undefined]

\* scope(ctx), called as it is
CallTask(scope) ==
  [thrown |-> IF scope.kind = "throws" THEN TaskError(scope) ELSE Undefined, guarded |-> FALSE,
   label |-> scope.name,
   state |-> IF scope.kind = "throws" THEN "failed" ELSE "running",
   error |-> IF scope.kind = "throws" THEN TaskError(scope) ELSE Undefined]

\* The body of runInBackground: the anonymous context made, the task as it
\* has become and what became of the call
runInBackgroundDirectCall(h, app, task, callee, now) ==
  [made |-> createAnonymousContext(h, app, Undefined, now),
   scope |-> NameTask(task, callee),
   run |-> CallTask(NameTask(task, callee))]
runInBackground(h, app, task, callee, now) ==
  [made |-> createAnonymousContext(h, app, Undefined, now),
   scope |-> NameTask(task, callee),
   run |-> ContextRunInBackground(NameTask(task, callee))]

RunInBackground ==
  \E task \in Tasks, callee \in Callees, now \in Times :
    /\ pc = "constructed"
    /\ Len(bg) < MaxBackground
    /\ LET r == runInBackground(heap, AppId, task, callee, now)
       IN  /\ heap' = r.made.heap
           /\ contexts' = Append(contexts, r.made.ctx)
           /\ bg' = Append(bg, [given |-> task, callee |-> callee, scope |-> r.scope,
                                thrown |-> r.run.thrown,
                                guarded |-> r.run.guarded, label |-> r.run.label,
                                state |-> r.run.state, error |-> r.run.error,
                                crashed |-> FALSE])
    /\ snap' = Append(snap, View(heap', contexts'[Len(contexts')]))
    /\ anons' = Append(anons, [arg |-> Undefined, desc |-> NoArg,
                               ctx |-> contexts'[Len(contexts')]])
    /\ ctxLogs' = IF bg'[Len(bg')].guarded /\ bg'[Len(bg')].state = "failed"
                  THEN Append(ctxLogs, [ctx |-> Len(contexts'), level |-> "error",
                                        err |-> bg'[Len(bg')].error])
                  ELSE ctxLogs
    /\ op' = [name |-> "runInBackground", ret |-> Len(bg) + 1]
    /\ UNCHANGED <<written, requests, emitted, router, keysVars, lifeVars, localsVars>>

\* A running task settles: it returns, or it fails; the failure of a task
\* run through its context is caught and logged there, the failure of a task
\* nobody waits for is an unhandled rejection
TaskSettles ==
  \E n \in 1..Len(bg) :
    /\ bg[n].state = "running"
    /\ IF bg[n].scope.kind = "returns"
       THEN /\ bg' = [bg EXCEPT ![n].state = "done"]
            /\ ctxLogs' = ctxLogs
       ELSE /\ bg' = [bg EXCEPT ![n].state = "failed", ![n].error = TaskError(bg[n].scope),
                                ![n].crashed = ~bg[n].guarded]
            /\ ctxLogs' = IF bg[n].guarded
                          THEN Append(ctxLogs,
                                 [ctx |-> CHOOSE i \in 1..Len(contexts) :
                                            contexts[i] = anons[n].ctx,
                                  level |-> "error", err |-> TaskError(bg[n].scope)])
                          ELSE ctxLogs
    /\ op' = [name |-> "settled", ret |-> n]
    /\ UNCHANGED <<requests, emitted, router, ctxVars, anonVars, keysVars, lifeVars, localsVars>>

----------------------------------------------------------------------------
(* app.locals *)

\* An object that holds view locals; id tells two objects with the same
\* properties apart
Bag(id, props) == [t |-> "bag", v |-> [id |-> id, props |-> props]]

\* if (!this[LOCALS]) this[LOCALS] = {}; made counts the objects made so far
EnsureLocals(slot, made) ==
  IF slot = Undefined THEN [slot |-> Bag(made + 1, NoProps), made |-> made + 1]
  ELSE [slot |-> slot, made |-> made]

\* assign(target, objects) of utility: objects is one object or an array of
\* objects; the own properties of each are copied in turn, and an object that
\* is undefined is skipped
RECURSIVE Assign(_, _)
Assign(props, objects) ==
  IF objects = <<>> THEN props
  ELSE Assign(IF Head(objects) = Undefined THEN props ELSE Head(objects).v @@ props,
              Tail(objects))

\* get locals()
GetLocalsOf(slot, made) ==
  LET e == EnsureLocals(slot, made) IN [slot |-> e.slot, made |-> e.made, ret |-> e.slot]

\* set locals(val)
SetLocalsReplacing(slot, made, val) ==
  [slot |-> Bag(made + 1, Assign(NoProps, val)), made |-> made + 1]
SetLocalsOf(slot, made, val) ==
  LET e == EnsureLocals(slot, made)
  IN  [slot |-> Bag(e.slot.v.id, Assign(e.slot.v.props, val)), made |-> e.made]

\* What is assigned to app.locals: an object, an array of objects, undefined
Props(p) == [t |-> "props", v |-> p]
LocalsValues ==
  { <<Props([a |-> Num(1)])>>, <<Props([a |-> Num(2)])>>, <<Props([b |-> Num(1)])>>,
    <<Props([a |-> Num(3), b |-> Num(2)])>>, <<Props(NoProps)>>, <<Undefined>>,
    <<Props([a |-> Num(1)]), Props([a |-> Num(4), c |-> Undefined])>> }

\* The keys an assignment names, with the value each ends up with
Named(val) == Assign(NoProps, val)

GetLocals ==
  /\ localsHist.ops < MaxLocalsOps
  /\ LET r == GetLocalsOf(locals, localsHist.made)
     IN  /\ locals' = r.slot
         /\ localsHist' = [localsHist EXCEPT !.returned = Append(@, r.ret.v.id),
                                             !.made = r.made, !.ops = @ + 1]
  /\ op' = [name |-> "getLocals", ret |-> 0]
  /\ UNCHANGED <<router, ctxVars, anonVars, keysVars, lifeVars, reqVars, bgVars>>

SetLocals ==
  \E val \in LocalsValues :
    /\ localsHist.ops < MaxLocalsOps
    /\ LET r == SetLocalsOf(locals, localsHist.made, val)
       IN  /\ locals' = r.slot
           /\ localsHist' = [localsHist EXCEPT !.assigned = Named(val) @@ @,
                                               !.made = r.made, !.ops = @ + 1]
    /\ op' = [name |-> "setLocals", ret |-> 0]
    /\ UNCHANGED <<router, ctxVars, anonVars, keysVars, lifeVars, reqVars, bgVars>>

----------------------------------------------------------------------------
(* Specifications *)

NoLocalsHistory == [returned |-> <<>>, assigned |-> NoProps, made |-> 0, ops |-> 0]

InitContexts ==
  /\ heap = InitHeap
  /\ contexts = <<>>
  /\ snap = <<>>
  /\ written = NoProps
  /\ op = [name |-> "init", ret |-> 0]
  /\ anons = <<>>
  /\ requests = NoProps
  /\ emitted = <<>>
  /\ ctxLogs = <<>>
  /\ bg = <<>>
  /\ locals = Undefined
  /\ localsHist = NoLocalsHistory

NoLogs == [warn |-> <<>>, error |-> <<>>, core |-> <<>>]
NoHistory ==
  [loadError |-> Undefined, dumpError |-> Undefined, serverEvents |-> 0, onServerRuns |-> 0]

\* new Application(options) has been called and super(options) has returned
InitNew ==
  /\ pc = "new"
  /\ ctorLog = <<>>
  /\ thrown = Undefined
  /\ logs = NoLogs
  /\ files = NoProps
  /\ listeners = NoListeners
  /\ servers = [s \in Servers |-> [clientError |-> <<>>, graceful |-> 0]]
  /\ sockets = <<>>
  /\ lifeHist = NoHistory

\* The constructor has returned: nothing to warn about, router.json written
InitConstructed ==
  /\ pc = "constructed"
  /\ ctorLog = ConstructorCalls
  /\ thrown = Undefined
  /\ logs = NoLogs
  /\ files = Put(NoProps, <<"/app/run", "router.json">>, RouterSnapshot(RouterStack))
  /\ listeners = BindEvents(NoListeners)
  /\ servers = [s \in Servers |-> [clientError |-> <<>>, graceful |-> 0]]
  /\ sockets = <<>>
  /\ lifeHist = NoHistory
  /\ router = RouterStack

\* A constructed application with no context yet
Init ==
  /\ InitContexts
  /\ InitKeysWith(Str(Chars("a, b ,c")), "prod")
  /\ InitConstructed

\* Contexts for inbound requests, and assignments to their fields
Next == CreateContext \/ WriteField

Spec == Init /\ [][Next]_vars

\* Anonymous contexts
NextAnon == CreateAnonymousContext

SpecAnon == Init /\ [][NextAnon]_vars

\* The keys accessor, over the values config.keys and config.env may have
InitKeys ==
  /\ InitContexts
  /\ InitConstructed
  /\ \E k \in KeysInputs, env \in Envs : InitKeysWith(k, env)

NextKeys == AccessKeys \/ SetConfigKeys

SpecKeys == InitKeys /\ [][NextKeys]_vars

\* The constructor, over the deprecated keys the configuration may hold
DeprecatedKeys == {"oldKey", "bodyparser"}
ConfusedMaps ==
  { <<>>, << <<"oldKey", "newKey">> >>,
    << <<"oldKey", "newKey">>, <<"bodyparser", "bodyParser">> >>,
    << <<"bodyparser", "bodyParser">>, <<"oldKey", "newKey">> >> }
ConfigValues == {Undefined, Num(5), Num(0)}

InitKeysIdle ==
  /\ keysCache = Undefined
  /\ keysOut = [threw |-> FALSE, value |-> Undefined, printed |-> <<>>,
                cacheBefore |-> Undefined, keys |-> Undefined]
  /\ stderr = <<>>
  /\ keysHist = [accesses |-> 0, computed |-> 0, changes |-> 0, source |-> Undefined]

InitCtor ==
  /\ InitContexts
  /\ InitNew
  /\ router \in RouterStacks
  /\ InitKeysIdle
  /\ \E confused \in ConfusedMaps, props \in [DeprecatedKeys -> ConfigValues] :
       config = ConfigWith(Str(Chars("a, b ,c")), "prod", confused, props)

NextCtor == CtorLoad \/ CtorDumpConfig \/ CtorWarnConfusedConfig \/ CtorBindEvents

SpecCtor == InitCtor /\ [][NextCtor]_vars

\* The constructor is straight-line code: it runs on until it returns or throws
SpecCtorFair == SpecCtor /\ WF_vars(NextCtor)

\* The life of one application: construction, 'server' events, client
\* errors and requests
InitLife ==
  /\ InitContexts
  /\ InitNew
  /\ router = RouterStack
  /\ InitKeysWith(Str(Chars("a, b ,c")), "prod")

NextLife ==
  \/ CtorLoad \/ CtorDumpConfig \/ CtorWarnConfusedConfig \/ CtorBindEvents
  \/ EmitServer \/ ClientError \/ CreateContext

SpecLife == InitLife /\ [][NextLife]_vars

\* Requests in flight: contexts are created and handled, responses end or
\* their connections close
NextRequests ==
  \/ CreateContext \/ HandleRequest \/ HandlingCompletes \/ ResponseEnds
  \/ ConnectionCloses \/ ResponseListenerRuns

SpecRequests == Init /\ [][NextRequests]_vars

\* Reads of and assignments to app.locals
NextLocals == GetLocals \/ SetLocals

SpecLocals == Init /\ [][NextLocals]_vars

\* Background tasks
NextBackground == RunInBackground \/ TaskSettles

SpecBackground == Init /\ [][NextBackground]_vars

\* Cookies that exceed the limit while their requests are handled
NextCookies == CreateContext \/ HandleRequest \/ CookieLimitExceed \/ HandlingCompletes

SpecCookies == Init /\ [][NextCookies]_vars

----------------------------------------------------------------------------
(* Properties of createContext *)

ProtoOf(X) == Get(InitHeap, AppId, X).v

Reads(i, X, f) == Get(heap, FacetOf(heap, contexts[i], X), f)

\* C1: a write to a field of one context's context, request or response
\* facet is never visible from another context: a field of B that no caller
\* assigned on B still reads what it read when B was created, which for a
\* field createContext does not set is the shared prototype's value; a field
\* assigned on B reads the value last assigned on B.
C1_WritesAreIsolated ==
  \A i \in 1..Len(contexts), X \in Facets, f \in Fields :
    IF <<i, X, f>> \in DOMAIN written
    THEN Reads(i, X, f) = written[<<i, X, f>>]
    ELSE /\ Reads(i, X, f) = snap[i][X][f]
         /\ f \in {"tag", "user"} => Reads(i, X, f) = Get(InitHeap, ProtoOf(X), f)

\* Context A was assigned a field that context B, created as well, was not,
\* and B reads something else than what A was assigned.
C1_Witness ==
  \E a, b \in 1..Len(contexts), X \in Facets, f \in Fields :
    /\ a # b
    /\ <<a, X, f>> \in DOMAIN written
    /\ <<b, X, f>> \notin DOMAIN written
    /\ Reads(a, X, f) # Reads(b, X, f)

\* C2: in the state createContext returns in, the returned context's request
\* and response point back to it and to each other.
C2_BackReferences ==
  op.name = "createContext" =>
    LET c == op.ret
        request == Get(heap, c, "request")
        response == Get(heap, c, "response")
    IN  /\ IsRef(request) /\ IsRef(response)
        /\ Get(heap, request.v, "ctx") = Ref(c)
        /\ Get(heap, response.v, "ctx") = Ref(c)
        /\ Get(heap, request.v, "response") = response
        /\ Get(heap, response.v, "request") = request

\* createContext has just returned a context that is not the first one.
C2_Witness ==
  /\ op.name = "createContext"
  /\ Len(contexts) >= 2
  /\ op.ret = contexts[Len(contexts)]


----------------------------------------------------------------------------
(* Properties of createAnonymousContext *)

\* The mocked request of the i-th anonymous context: ctx.req
MockReq(i) == Get(heap, anons[i].ctx, "req").v

OverSubs(i) == IF anons[i].desc = NoArg THEN NoProps ELSE MockSubs(anons[i].desc)
OverTop(i) == IF anons[i].desc = NoArg THEN NoProps ELSE anons[i].desc.top

SubFieldNames == UNION { DOMAIN DefaultSubs[k] : k \in SubKeys } \cup {"a", "user-agent", "other"}
TopFieldNames == (DOMAIN DefaultTop) \cup {"ip", "other"}

\* C3: for headers, query and socket the override is merged into the
\* default sub-object: the sub-object holds exactly the default and the
\* overriding subfields, an overriding subfield has the override's value and
\* every other one its default; a key not overridden keeps its defaults.
C3_SubObjectsAreMerged ==
  \A i \in 1..Len(anons), k \in SubKeys :
    LET sub == Get(heap, MockReq(i), k)
        over == IF k \in DOMAIN OverSubs(i) THEN OverSubs(i)[k] ELSE NoProps
    IN  /\ IsRef(sub)
        /\ DOMAIN heap[sub.v].own = (DOMAIN DefaultSubs[k]) \cup (DOMAIN over)
        /\ \A f \in SubFieldNames :
             Get(heap, sub.v, f) =
               IF f \in DOMAIN over THEN over[f]
               ELSE IF f \in DOMAIN DefaultSubs[k] THEN DefaultSubs[k][f]
               ELSE Undefined

\* A call that overrides query with {a: '1'} and neither headers nor socket:
\* query.a reads '1' and the other two sub-objects read their defaults.
C3_Witness ==
  \E i \in 1..Len(anons) :
    /\ DOMAIN OverSubs(i) = {"query"}
    /\ Get(heap, Get(heap, MockReq(i), "query").v, "a") = Str("1")
    /\ Get(heap, Get(heap, MockReq(i), "headers").v, "x-forwarded-for") = Str("127.0.0.1")
    /\ Get(heap, Get(heap, MockReq(i), "socket").v, "remotePort") = Num(7001)

\* C4: every other top-level key of the overrides replaces the default
\* outright, and every default top-level field the overrides do not name
\* keeps its default value.
C4_TopLevelReplaced ==
  \A i \in 1..Len(anons) :
    /\ DOMAIN heap[MockReq(i)].own = SubKeys \cup (DOMAIN DefaultTop) \cup (DOMAIN OverTop(i))
    /\ \A f \in TopFieldNames :
         Get(heap, MockReq(i), f) =
           IF f \in DOMAIN OverTop(i) THEN OverTop(i)[f]
           ELSE IF f \in DOMAIN DefaultTop THEN DefaultTop[f]
           ELSE Undefined

\* A call that overrides method with 'POST': method reads 'POST' and host,
\* path and protocol read their defaults.
C4_Witness ==
  \E i \in 1..Len(anons) :
    /\ DOMAIN OverTop(i) = {"method"}
    /\ Get(heap, MockReq(i), "method") = Str("POST")
    /\ Get(heap, MockReq(i), "host") = Str("127.0.0.1")
    /\ Get(heap, MockReq(i), "path") = Str("/")
    /\ Get(heap, MockReq(i), "protocol") = Str("http")

----------------------------------------------------------------------------
(* Properties of the keys accessor *)

\* The k-th comma of s (0 before the string, Len(s) + 1 after the last comma)
CommasOf(s) == {i \in 1..Len(s) : s[i] = ","}
CutAt(s, k) ==
  IF k = 0 THEN 0
  ELSE IF k > Cardinality(CommasOf(s)) THEN Len(s) + 1
  ELSE CHOOSE i \in CommasOf(s) : Cardinality({j \in CommasOf(s) : j < i}) = k - 1

\* t is r without the spaces around it
IsTrimOf(t, r) ==
  /\ t # <<>> => ~IsSpace(t[1]) /\ ~IsSpace(t[Len(t)])
  /\ \E i \in 0..Len(r) :
       /\ i + Len(t) <= Len(r)
       /\ SubSeq(r, i + 1, i + Len(t)) = t
       /\ \A q \in (1..i) \cup ((i + Len(t) + 1)..Len(r)) : IsSpace(r[q])

\* list holds, in order, the trimmed pieces of s between its commas
IsSplitTrim(s, list) ==
  /\ Len(list) = Cardinality(CommasOf(s)) + 1
  /\ \A k \in 1..Len(list) :
       IsTrimOf(list[k], SubSeq(s, CutAt(s, k - 1) + 1, CutAt(s, k) - 1))

Accessed == keysHist.accesses > 0

\* C5 (as amended): when config.keys is a non-empty comma-separated string
\* and nothing is cached, the access returns the ordered list of its trimmed
\* parts ("a, b ,c" gives a, b, c); every later access returns that same
\* array, never a second one, whatever config.keys has become.
C5_KeysSplitTrimmedAndCached ==
  /\ keysHist.computed <= 1
  /\ keysCache # Undefined =>
       /\ keysCache.v.id = 1
       /\ IsSplitTrim(keysHist.source.v, keysCache.v.list)
  /\ Accessed /\ keysOut.cacheBefore = Undefined /\ keysOut.keys.t = "str"
       /\ keysOut.keys.v # <<>> =>
       /\ ~keysOut.threw
       /\ keysOut.value = keysCache
       /\ IsSplitTrim(keysOut.keys.v, keysOut.value.v.list)
       /\ keysOut.keys = Str(Chars("a, b ,c")) =>
            keysOut.value.v.list = << <<"a">>, <<"b">>, <<"c">> >>
  /\ Accessed /\ keysOut.cacheBefore # Undefined =>
       /\ ~keysOut.threw
       /\ keysOut.value = keysOut.cacheBefore
       /\ keysCache = keysOut.cacheBefore

\* A later access returned the array computed from "a, b ,c" although
\* config.keys had changed since.
C5_Witness ==
  /\ keysHist.accesses >= 2
  /\ keysOut.cacheBefore # Undefined
  /\ keysOut.value = keysOut.cacheBefore
  /\ keysOut.value.v.list = << <<"a">>, <<"b">>, <<"c">> >>
  /\ keysOut.keys # keysHist.source

\* C5 as stated: whenever config.keys is a string and nothing is cached, the
\* access returns the list of its trimmed parts.
C5_AnyStringGivesList ==
  Accessed /\ keysOut.cacheBefore = Undefined /\ keysOut.keys.t = "str" =>
    /\ ~keysOut.threw
    /\ IsSplitTrim(keysOut.keys.v, keysOut.value.v.list)

\* C6: with config.keys absent and nothing cached, the access throws, caches
\* nothing, and prints the guidance exactly when config.env is 'local' or
\* 'unittest'; what it prints is the last thing on stderr.
C6_MissingKeysThrow ==
  Accessed /\ keysOut.cacheBefore = Undefined /\ keysOut.keys = Undefined =>
    /\ keysOut.threw
    /\ keysOut.value = Str("Please set config.keys first")
    /\ keysCache = Undefined
    /\ keysOut.printed # <<>> <=> config.env \in {"local", "unittest"}
    /\ keysOut.printed \in {<<>>, Guidance(config.baseDir)}
    /\ Len(stderr) >= Len(keysOut.printed)
    /\ SubSeq(stderr, Len(stderr) - Len(keysOut.printed) + 1, Len(stderr)) = keysOut.printed

\* An access with config.keys absent threw after printing the guidance in
\* the unittest environment.
C6_Witness ==
  /\ Accessed /\ keysOut.cacheBefore = Undefined /\ keysOut.keys = Undefined
  /\ keysOut.threw
  /\ config.env = "unittest"
  /\ keysOut.printed = Guidance(config.baseDir)

\* An access with config.keys absent threw without printing anything outside
\* the local and unittest environments.
C6_WitnessSilent ==
  /\ Accessed /\ keysOut.cacheBefore = Undefined /\ keysOut.keys = Undefined
  /\ keysOut.threw
  /\ config.env = "prod"
  /\ stderr = <<>>

----------------------------------------------------------------------------
(* Properties of warnConfusedConfig and of the constructor *)

WarningsNaming(key) == {j \in 1..Len(logs.warn) : logs.warn[j][2] = key}

\* C7: once warnConfusedConfig has run, logger.warn has been given exactly
\* one warning, naming the deprecated key and its replacement, for each key
\* of confusedConfigurations whose configuration value is defined, none for
\* a key whose value is undefined, and no other warning; it returned
\* normally, so that construction went on.
C7_OneWarningPerDefinedKey ==
  "warnConfusedConfig" \in {ctorLog[i] : i \in 1..Len(ctorLog)} =>
    /\ pc \in {"warned", "constructed"}
    /\ thrown = Undefined
    /\ \A i \in 1..Len(config.confusedConfigurations) :
         LET key == config.confusedConfigurations[i][1]
             replacement == config.confusedConfigurations[i][2]
         IN  /\ Cardinality(WarningsNaming(key)) =
                  IF config.props[key] # Undefined THEN 1 ELSE 0
             /\ \A j \in WarningsNaming(key) : logs.warn[j][3] = replacement
    /\ \A j \in 1..Len(logs.warn) :
         \E i \in 1..Len(config.confusedConfigurations) :
           logs.warn[j][2] = config.confusedConfigurations[i][1]

\* Of two deprecated keys one is set, to 0, and one is undefined: one
\* warning, naming oldKey and newKey.
C7_Witness ==
  /\ pc = "warned"
  /\ Len(config.confusedConfigurations) = 2
  /\ config.props["oldKey"] = Num(0)
  /\ config.props["bodyparser"] = Undefined
  /\ Len(logs.warn) = 1
  /\ logs.warn[1][2] = "oldKey" /\ logs.warn[1][3] = "newKey"

\* C9: the constructor calls load, dumpConfig, warnConfusedConfig and the
\* event binding in this order, each at most once; config is dumped and
\* events are bound only after a load that returned; when the loader throws,
\* the caller gets that very exception and nothing was dumped, warned or
\* bound.
C9_ConstructorOrder ==
  /\ \E n \in 0..Len(ConstructorCalls) : ctorLog = SubSeq(ConstructorCalls, 1, n)
  /\ files # NoProps \/ logs # NoLogs \/ listeners # NoListeners =>
       /\ ctorLog # <<>> /\ ctorLog[1] = "load"
       /\ lifeHist.loadError = Undefined
  /\ listeners # NoListeners =>
       /\ ctorLog = ConstructorCalls
       /\ \A e \in Events : Len(listeners[e]) <= 1
  /\ pc = "constructed" <=> ctorLog = ConstructorCalls
  /\ ctorLog # <<>> /\ lifeHist.loadError # Undefined => pc = "threw"
  /\ pc = "threw" =>
       /\ thrown # Undefined
       /\ thrown = lifeHist.loadError
       /\ ctorLog = <<"load">>
       /\ files = NoProps /\ logs = NoLogs /\ listeners = NoListeners

\* The loader threw and the constructor threw the same exception.
C9_Witness ==
  /\ pc = "threw"
  /\ lifeHist.loadError = Str("loader error 2")
  /\ thrown = Str("loader error 2")

----------------------------------------------------------------------------
(* Properties of the 'server' event and of client errors *)

\* The first index at or after i where pat occurs in b, or 0
FindFrom(b, pat, i) ==
  LET hits == { j \in i..(Len(b) - Len(pat) + 1) : SubSeq(b, j, j + Len(pat) - 1) = pat }
  IN  IF hits = {} THEN 0 ELSE CHOOSE j \in hits : \A k \in hits : j <= k

RECURSIVE ParseDigits(_, _, _)
ParseDigits(b, i, n) ==
  IF i <= Len(b) /\ b[i] \in 48..57 THEN ParseDigits(b, i + 1, 10 * n + (b[i] - 48)) ELSE n

\* "\r\nContent-Length: "
LengthHeaderName ==
  << 13, 10, 67, 111, 110, 116, 101, 110, 116, 45, 76, 101, 110, 103, 116, 104, 58, 32 >>
\* "HTTP/1.1 400 Bad Request\r\n"
StatusLine ==
  << 72, 84, 84, 80, 47, 49, 46, 49, 32, 52, 48, 48, 32, 66, 97, 100,
     32, 82, 101, 113, 117, 101, 115, 116, 13, 10 >>

\* What a reader of the bytes b finds: the Content-Length value, and the body
ContentLengthOf(b) ==
  LET i == FindFrom(b, LengthHeaderName, 1)
  IN  IF i = 0 \/ i > FindFrom(b, EndOfHeaders, 1) THEN -1
      ELSE ParseDigits(b, i + Len(LengthHeaderName), 0)
BodyOf(b) ==
  LET i == FindFrom(b, EndOfHeaders, 1)
  IN  IF i = 0 THEN <<>> ELSE SubSeq(b, i + Len(EndOfHeaders), Len(b))

C8_SocketGot400(sock) ==
  /\ sock.ended
  /\ sock.endsAfterEnd = 0
  /\ SubSeq(sock.written, 1, Len(StatusLine)) = StatusLine
  /\ BodyOf(sock.written) = Utf8Encode(DEFAULT_BAD_REQUEST_HTML)
  /\ ContentLengthOf(sock.written) = Len(BodyOf(sock.written))

\* C8: every socket a client error was reported on got the fixed HTTP/1.1
\* 400 response, whose Content-Length is the number of bytes of the HTML body,
\* and was then ended, with one error logged; the step that handles a client
\* error creates no context and changes none.
C8_ClientErrorGets400 ==
  /\ [](/\ \A k \in 1..Len(sockets) : C8_SocketGot400(sockets[k])
        /\ Len(logs.error) = Len(sockets))
  /\ [][Len(sockets') > Len(sockets) => heap' = heap /\ contexts' = contexts]_vars

\* A client error was handled while a context of an earlier request exists.
C8_Witness ==
  /\ Len(sockets) >= 1
  /\ sockets[1].ended
  /\ sockets[1].written # <<>>
  /\ Len(contexts) >= 1

RECURSIVE SumOver(_, _)
SumOver(set, field) ==
  IF set = {} THEN 0
  ELSE LET s == CHOOSE s \in set : TRUE
       IN  (IF field = "graceful" THEN servers[s].graceful ELSE Len(servers[s].clientError))
             + SumOver(set \ {s}, field)

\* uninitialized: no listener bound; bound: bound, the server handler has
\* not run; active: the server handler has run
Lifecycle ==
  IF SumOver(Servers, "graceful") + SumOver(Servers, "clientError") > 0 THEN "active"
  ELSE IF listeners # NoListeners THEN "bound"
  ELSE "uninitialized"

\* C10: the lifecycle only moves uninitialized -> bound -> active; it is
\* bound exactly when the constructor has returned and no 'server' event
\* was emitted yet; the first 'server' event installs crash supervision and
\* the clientError handler, once, and no later 'server' event installs them
\* again.
C10_Lifecycle ==
  /\ [](/\ Lifecycle = "uninitialized" <=> pc # "constructed"
        /\ Lifecycle = "bound" <=> pc = "constructed" /\ lifeHist.serverEvents = 0
        /\ SumOver(Servers, "clientError") = IF lifeHist.serverEvents >= 1 THEN 1 ELSE 0
        /\ SumOver(Servers, "graceful") = IF lifeHist.serverEvents >= 1 THEN 1 ELSE 0
        /\ lifeHist.onServerRuns <= 1)
  /\ [][\E from, to \in {"uninitialized", "bound", "active"} :
          /\ from = Lifecycle /\ to = Lifecycle'
          /\ <<from, to>> \in
               { <<"uninitialized", "uninitialized">>, <<"uninitialized", "bound">>,
                 <<"bound", "bound">>, <<"bound", "active">>, <<"active", "active">> }]_vars

\* A second 'server' event was emitted and the clientError handler is still
\* installed once.
C10_Witness ==
  /\ lifeHist.serverEvents >= 2
  /\ SumOver(Servers, "clientError") = 1
  /\ Lifecycle = "active"

----------------------------------------------------------------------------
(* Properties of handleRequest *)

EventsOf(event, i) == {k \in 1..Len(emitted) : emitted[k].event = event /\ emitted[k].ctx = i}

\* C11: for every context passed to handleRequest, 'request' is emitted once,
\* before its handling starts; 'response' is emitted at most once, after
\* that 'request' and after the handling has started, when the response has
\* finished or its connection has closed; a response that finished was sent
\* by handling that had completed, while a connection that closed may do so
\* before the handling completes; the observers of both events see the
\* context with all that createContext sets, whatever other contexts are in
\* flight.
C11_RequestThenResponse ==
  \A i \in 1..Len(contexts) :
    /\ Cardinality(EventsOf("request", i)) = IF i \in DOMAIN requests THEN 1 ELSE 0
    /\ Cardinality(EventsOf("response", i)) <= 1
    /\ \A k \in EventsOf("request", i) :
         emitted[k].phase = "created" /\ emitted[k].populated
    /\ \A k \in EventsOf("response", i) :
         /\ \E j \in EventsOf("request", i) : j < k
         /\ emitted[k].populated
         /\ emitted[k].phase \in {"handling", "handled"}
         /\ emitted[k].res \in {"finished", "closed"}
         /\ emitted[k].res = "finished" => emitted[k].phase = "handled"

\* Two contexts are in flight; the one handled second has completed, its
\* response has finished and its 'response' was emitted while the first is
\* still being handled.
C11_Witness ==
  /\ DOMAIN requests = {1, 2}
  /\ requests[1].phase = "handling"
  /\ \E k \in EventsOf("response", 2) :
       /\ emitted[k].phase = "handled" /\ emitted[k].res = "finished"
       /\ \E j1 \in EventsOf("request", 1), j2 \in EventsOf("request", 2) : j1 < j2 /\ j2 < k

\* C11 as stated: every 'response' event is emitted after the handling of its
\* context has completed.
C11_ResponseAfterHandlingCompletes ==
  \A k \in 1..Len(emitted) :
    emitted[k].event = "response" => emitted[k].phase = "handled"

----------------------------------------------------------------------------
(* Properties of dumpConfig *)

\* C12: once dumpConfig has run into an error while building or writing the
\* router snapshot, the constructor has not thrown: the error was logged as
\* one warning of the core logger, no router.json was written, and the
\* constructor goes on to warnConfusedConfig and the event binding and returns.
C12_DumpFailureIsCaught ==
  /\ [](lifeHist.dumpError # Undefined =>
          /\ pc \in {"dumped", "warned", "constructed"}
          /\ thrown = Undefined
          /\ files = NoProps
          /\ logs.core = << <<"warn", "dumpConfig router.json error: ",
                              lifeHist.dumpError.v>> >>)
  /\ (lifeHist.dumpError # Undefined) ~>
       (/\ pc = "constructed"
        /\ ctorLog = ConstructorCalls
        /\ Len(listeners["server"]) = 1 /\ Len(listeners["cookieLimitExceed"]) = 1)

\* A layer without a matcher made the snapshot fail; a deprecated key was
\* warned about afterwards and the events were bound.
C12_Witness ==
  /\ lifeHist.dumpError = Str("Cannot read property 'toString' of undefined")
  /\ pc = "constructed"
  /\ Len(logs.warn) >= 1
  /\ Len(listeners["server"]) = 1

RouterJson == <<config.rundir, "router.json">>

\* C15: when dumpConfig has written router.json, the file holds one entry per
\* layer of the router, in the router's order, with the layer's name,
\* methods and path, and with each handler of its stack named by its full
\* path if it has one, else by its _name, else by its name, else
\* 'anonymous'; for the single route home, GET, / that is one entry with
\* name home, methods [GET], path /.
C15_RouterSnapshot ==
  "dumpConfig" \in {ctorLog[n] : n \in 1..Len(ctorLog)} /\ lifeHist.dumpError = Undefined =>
    /\ RouterJson \in DOMAIN files
    /\ LET json == files[RouterJson]
       IN  /\ Len(json) = Len(router)
           /\ \A i \in 1..Len(router) :
                /\ json[i].name = router[i].name
                /\ json[i].methods = router[i].methods
                /\ json[i].path = router[i].path
                /\ Len(json[i].stack) = Len(router[i].stack)
                /\ \A j \in 1..Len(router[i].stack) :
                     LET fn == router[i].stack[j]
                         id == json[i].stack[j]
                     IN  /\ fn.fullpath # "" => id = fn.fullpath
                         /\ fn.fullpath = "" /\ fn.uname # "" => id = fn.uname
                         /\ fn.fullpath = "" /\ fn.uname = "" /\ fn.name # "" => id = fn.name
                         /\ fn.fullpath = "" /\ fn.uname = "" /\ fn.name = "" =>
                              id = "anonymous"
           /\ (/\ Len(router) = 1 /\ router[1].name = "home"
               /\ router[1].methods = <<"GET">> /\ router[1].path = "/") =>
                /\ Len(json) = 1
                /\ json[1].name = "home" /\ json[1].methods = <<"GET">> /\ json[1].path = "/"

\* A router of two routes was dumped; the handlers of the first are named in
\* each of the four ways.
C15_Witness ==
  /\ pc = "constructed"
  /\ RouterJson \in DOMAIN files
  /\ Len(files[RouterJson]) = 2
  /\ files[RouterJson][1].name = "posts" /\ files[RouterJson][2].name = "home"
  /\ files[RouterJson][1].stack = <<"/app/app/middleware/auth.js", "jsonp", "update", "anonymous">>

----------------------------------------------------------------------------
(* Further properties of the keys accessor *)

KeysAccessStep == keysHist.accesses' > keysHist.accesses

\* C16: once an access to keys has succeeded, the cached list never changes:
\* no access and no change of config.keys, its removal included, alters the
\* cache, and every later access succeeds and returns that very list.
C16_KeysImmutableOnceComputed ==
  [][keysCache # Undefined =>
       /\ keysCache' = keysCache
       /\ KeysAccessStep => ~keysOut'.threw /\ keysOut'.value = keysCache]_vars

\* config.keys was removed after the first access, and a later access still
\* returned the list computed by the first.
C16_Witness ==
  /\ keysHist.accesses >= 2
  /\ keysHist.changes >= 1
  /\ config.keys = Undefined
  /\ keysOut.keys = Undefined
  /\ ~keysOut.threw
  /\ keysOut.value = keysCache
  /\ keysCache.v.list # <<>>

\* C18: an access that fails leaves the cache unset, and the cache stays
\* unset until an access succeeds; an access made with the cache unset and
\* config.keys set since succeeds, returns the list derived from the value
\* config.keys has at that access and caches it.
C18_FailureCachesNothing ==
  /\ [](/\ Accessed /\ keysOut.threw => keysCache = Undefined
        /\ keysCache = Undefined <=> keysHist.computed = 0)
  /\ [][KeysAccessStep /\ keysCache = Undefined /\ config.keys.t = "str"
          /\ config.keys.v # <<>> =>
          /\ ~keysOut'.threw
          /\ IsSplitTrim(config.keys.v, keysOut'.value.v.list)
          /\ keysCache' = keysOut'.value]_vars

\* An access failed and printed its guidance, config.keys was then set to
\* "x,y", and the next access returned and cached x, y.
C18_Witness ==
  /\ stderr # <<>>
  /\ keysHist.changes = 1
  /\ config.keys = Str(Chars("x,y"))
  /\ ~keysOut.threw
  /\ keysOut.cacheBefore = Undefined
  /\ keysCache = keysOut.value
  /\ keysCache.v.list = << <<"x">>, <<"y">> >>

----------------------------------------------------------------------------
(* Frame properties of createContext and createAnonymousContext *)

\* C17: the application's context, request and response prototypes, and the
\* application object that holds them, are as they were before any context
\* was created or written to: same fields, same values.
C17_PrototypesUnchanged ==
  /\ heap[AppId] = InitHeap[AppId]
  /\ \A X \in Facets :
       /\ Get(heap, AppId, X) = Get(InitHeap, AppId, X)
       /\ heap[ProtoOf(X)] = InitHeap[ProtoOf(X)]

\* Two contexts exist and a field that the prototype defines was assigned on
\* a facet of one of them, which now reads something else than the prototype.
C17_Witness ==
  /\ Len(contexts) >= 2
  /\ \E i \in 1..Len(contexts), X \in Facets :
       /\ <<i, X, "tag">> \in DOMAIN written
       /\ Reads(i, X, "tag") # Get(heap, ProtoOf(X), "tag")

\* The caller's overrides object of the i-th call, 0 if it passed none
OverridesOf(i) == IF IsRef(anons[i].arg) THEN anons[i].arg.v ELSE 0

\* C19: the overrides object a caller passed, and its headers, query and
\* socket objects, hold what they held when they were passed; the mocked
\* request and its three sub-objects are objects of their own, shared neither
\* with the overrides nor with the request of any other call; and a subfield
\* overridden in one call only reads its default in the request of another.
C19_FreshDefaultsOverridesUntouched ==
  \A i \in 1..Len(anons) :
    /\ OverridesOf(i) # 0 =>
         LET a == OverridesOf(i)
             d == anons[i].desc
         IN  /\ DOMAIN heap[a].own = (DOMAIN MockSubs(d)) \cup (DOMAIN d.top)
             /\ \A k \in DOMAIN d.top : heap[a].own[k] = d.top[k]
             /\ \A k \in DOMAIN MockSubs(d) :
                  /\ IsRef(heap[a].own[k])
                  /\ heap[heap[a].own[k].v].own = MockSubs(d)[k]
                  /\ Get(heap, MockReq(i), k) # heap[a].own[k]
             /\ MockReq(i) # a
    /\ \A j \in 1..Len(anons) : j # i =>
         /\ MockReq(i) # MockReq(j)
         /\ \A k \in SubKeys :
              /\ Get(heap, MockReq(i), k) # Get(heap, MockReq(j), k)
              /\ \A f \in SubFieldNames :
                   (/\ k \in DOMAIN OverSubs(j) /\ f \in DOMAIN OverSubs(j)[k]
                    /\ ~(k \in DOMAIN OverSubs(i) /\ f \in DOMAIN OverSubs(i)[k])) =>
                     Get(heap, Get(heap, MockReq(i), k).v, f) =
                       IF f \in DOMAIN DefaultSubs[k] THEN DefaultSubs[k][f] ELSE Undefined

\* A call that overrode the headers with a user-agent was followed by a call
\* without overrides, whose request has no user-agent; the first caller's
\* headers object still holds the user-agent only.
C19_Witness ==
  /\ Len(anons) = 2
  /\ OverridesOf(1) # 0 /\ OverridesOf(2) = 0
  /\ DOMAIN OverSubs(1) = {"headers"}
  /\ DOMAIN heap[Get(heap, OverridesOf(1), "headers").v].own = {"user-agent"}
  /\ Get(heap, Get(heap, MockReq(1), "headers").v, "user-agent") = Str("ua")
  /\ Get(heap, Get(heap, MockReq(2), "headers").v, "user-agent") = Undefined

----------------------------------------------------------------------------
(* Properties of the 'cookieLimitExceed' event *)

CookieEvents == {k \in 1..Len(emitted) : emitted[k].event = "cookieLimitExceed"}
\* The n-th 'cookieLimitExceed' event emitted
NthCookieEvent(n) ==
  emitted[CHOOSE k \in CookieEvents : Cardinality({j \in CookieEvents : j <= k}) = n]

\* C14: the n-th 'cookieLimitExceed' event, for every n, has put one error
\* named CookieLimitExceedError, with the cookie's name as key and its value
\* as cookie, into the logger of the context the event names, and nothing
\* else was logged there; the step that handles the event leaves the request,
\* its context and its response as they were, and the request goes on.
C14_EveryCookieLimitExceedLogged ==
  /\ [](/\ Len(ctxLogs) = Cardinality(CookieEvents)
        /\ \A n \in 1..Len(ctxLogs) :
             /\ ctxLogs[n].ctx = NthCookieEvent(n).ctx
             /\ ctxLogs[n].level = "error"
             /\ ctxLogs[n].err.name = "CookieLimitExceedError"
             /\ ctxLogs[n].err.key = NthCookieEvent(n).payload.v[1]
             /\ ctxLogs[n].err.cookie = NthCookieEvent(n).payload.v[2])
  /\ [][Len(emitted') > Len(emitted) /\ emitted'[Len(emitted')].event = "cookieLimitExceed" =>
          /\ requests' = requests /\ heap' = heap /\ contexts' = contexts
          /\ requests'[emitted'[Len(emitted')].ctx].phase = "handling"
          /\ requests'[emitted'[Len(emitted')].ctx].res = "open"]_vars

\* A second event, for another cookie of the same request, was logged as
\* well, and the request was then handled to its end.
C14_Witness ==
  /\ Len(ctxLogs) = 2
  /\ ctxLogs[1].ctx = ctxLogs[2].ctx
  /\ ctxLogs[1].err.key # ctxLogs[2].err.key
  /\ ctxLogs[2].err.cookie.length = 5000
  /\ requests[ctxLogs[2].ctx].phase = "handled"

----------------------------------------------------------------------------
(* Properties of runInBackground *)

----------------------------------------------------------------------------
(* Properties of app.locals *)

\* C20: every read of app.locals has returned one and the same object, which
\* is the object the application holds; that object has exactly the keys
\* that were ever assigned, each with the value of the latest assignment
\* that named it, so that an assignment changes the keys it names and no
\* other.
C20_LocalsAreMerged ==
  /\ \A i, j \in 1..Len(localsHist.returned) : localsHist.returned[i] = localsHist.returned[j]
  /\ localsHist.made <= 1
  /\ localsHist.ops > 0 <=> locals # Undefined
  /\ locals # Undefined =>
       /\ locals.v.id = 1
       /\ \A i \in 1..Len(localsHist.returned) : localsHist.returned[i] = locals.v.id
       /\ DOMAIN locals.v.props = DOMAIN localsHist.assigned
       /\ \A k \in DOMAIN localsHist.assigned : locals.v.props[k] = localsHist.assigned[k]

\* a was assigned 1, then b was assigned: the object read before and after
\* is the same, a is still 1 and b is there.
C20_Witness ==
  /\ Len(localsHist.returned) >= 1
  /\ localsHist.ops = 3
  /\ op.name = "setLocals"
  /\ DOMAIN locals.v.props = {"a", "b"}
  /\ locals.v.props["a"] = Num(1) /\ locals.v.props["b"] = Num(1)

====
